---------------------------- MODULE Spec2Model ----------------------------
(***************************************************************************)
(* A model of mcp-io (github.com/robbyt/mcp-io): the functional-option     *)
(* construction of a Handler (New / NewToolHandler), the deferred replay   *)
(* of tool registrations against the MCP server, the typed / raw / script  *)
(* tool adapters with their error classification, the methods of the       *)
(* returned Handler under concurrent callers, and the helpers that keep no *)
(* state (ToolError.Error, CreateDynamicSchema, CreateObjectSchema).        *)
(*                                                                         *)
(* Strings and byte slices whose content matters are sequences of          *)
(* characters; Go pointers that may be nil are either an identifier or     *)
(* the corresponding nil value below.                                      *)
(***************************************************************************)
EXTENDS Integers, Sequences, FiniteSets, TLC

VARIABLES
    entry,      \* which construction entry point is running: "New" or "NewToolHandler"
    opts,       \* the option sequence passed to it
    pc,         \* position inside the entry point
    idx,        \* loop index of the option loop, then of the registration loop
    cfg,        \* the handlerConfig being built
    servers,    \* the mcp.Server instances: what each was built from and the AddTool calls it received
    handler,    \* the returned *Handler (NoHandler until returned, and on failure)
    err,        \* the returned error (Nil while running or on success)
    server,     \* the server the entry point settled on (NilServer before that)
    applied,    \* indices of the options whose closure has been called, in call order
    calls,      \* tool invocations made through adapted handlers
    serving,    \* calls of the Handler's methods (GetServer, ServeHTTP, ServeSSE, ServeStdio) by its callers
    helper      \* a call of a helper that keeps no state (ToolError.Error, the schema helpers): arguments and result

vars == <<entry, opts, pc, idx, cfg, servers, handler, err, server, applied, calls, serving, helper>>

-----------------------------------------------------------------------------
(* Bounds of the model *)

\* longest option sequence passed to the entry point
MaxOpts == 3

\* longest byte slice a raw tool function returns
MaxLen == 2

\* longest message and longest code of a Tool Error
MaxText == 2

\* longest list of field descriptors, and longest required list, given to a schema helper
MaxFields == 2

-----------------------------------------------------------------------------
(* nil values *)

Nil == [kind |-> "nil"]          \* a nil error, a nil *CallToolResult
NilServer == "nil"               \* a nil *mcp.Server
NilSchema == [Type |-> "nil"]    \* a nil *jsonschema.Schema
NilEvaluator == "nil"            \* a nil ScriptEvaluator
NilFunc == [f |-> "nil"]         \* a nil tool function
NoHandler == [server |-> NilServer, httpHandler |-> NilServer]   \* a nil *Handler

-----------------------------------------------------------------------------
(* errors.go: the error model *)

ToolError(message, code) == [kind |-> "ToolError", Message |-> message, Code |-> code]

\* faulty variant of ToolErrorError: the brackets are written whatever the code is
ToolErrorErrorAlwaysBracketed(e) == <<"[">> \o e.Code \o <<"]", " ">> \o e.Message

\* (e *ToolError) Error(): fmt.Sprintf("[%s] %s", e.Code, e.Message), or e.Message
ToolErrorError(e) ==
    IF e.Code # <<>>
    THEN <<"[">> \o e.Code \o <<"]", " ">> \o e.Message
    ELSE e.Message

NewToolError(message) == ToolError(message, <<>>)
NewToolErrorWithCode(message, code) == ToolError(message, code)
ValidationError(message) == ToolError(message, <<"VALIDATION_ERROR">>)
ProcessingError(message) == ToolError(message, <<"PROCESSING_ERROR">>)

Sentinel(id) == [kind |-> "sentinel", id |-> id]

ErrEmptyName == Sentinel("name cannot be empty")
ErrEmptyVersion == Sentinel("version cannot be empty")
ErrEmptyToolName == Sentinel("tool name cannot be empty")
ErrNilSchema == Sentinel("schema cannot be nil")
ErrNilFunction == Sentinel("function cannot be nil")
ErrNilServer == Sentinel("server cannot be nil")
ErrNilEvaluator == Sentinel("evaluator cannot be nil")
ErrDuplicateTool == Sentinel("tool already registered")
ErrInvalidOperation == Sentinel("invalid operation")
ErrInvalidJSON == Sentinel("tool returned invalid JSON")

ConfigSentinels ==
    {ErrEmptyName, ErrEmptyVersion, ErrEmptyToolName, ErrNilSchema, ErrNilServer, ErrNilEvaluator}

\* fmt.Errorf(prefix + "%w", inner)
Wrapf(prefix, inner) == [kind |-> "wrap", prefix |-> prefix, inner |-> inner]

\* errors.Join(a, b)
ErrorsJoin(a, b) == [kind |-> "join", errs |-> <<a, b>>]

\* errors.New(text) in user code
PlainError(text) == [kind |-> "plain", text |-> text]

\* the *json.SyntaxError of encoding/json
SyntaxError == [kind |-> "SyntaxError"]

\* the *json.MarshalerError json.Marshal returns when a json.RawMessage is not valid JSON
MarshalerError(inner) == [kind |-> "MarshalerError", inner |-> inner]

\* errors.Is(e, target): walks Unwrap() error and Unwrap() []error
RECURSIVE ErrorsIs(_, _)
ErrorsIs(e, target) ==
    IF e = Nil THEN target = Nil
    ELSE IF e = target THEN TRUE
    ELSE IF e.kind \in {"wrap", "MarshalerError"} THEN ErrorsIs(e.inner, target)
    ELSE IF e.kind = "join" THEN \E i \in 1..Len(e.errs) : ErrorsIs(e.errs[i], target)
    ELSE FALSE

\* faulty variant of AsToolError: only the error itself is looked at (a type assertion)
AsToolErrorOutermost(e) ==
    IF e = Nil THEN Nil
    ELSE IF e.kind = "ToolError" THEN e
    ELSE Nil

\* errors.As(e, &toolErr) with toolErr of type *ToolError: the first ToolError of
\* the chain, depth first, or Nil when there is none
RECURSIVE AsToolError(_)
RECURSIVE AsToolErrorIn(_, _)
AsToolErrorIn(errs, i) ==
    IF i > Len(errs) THEN Nil
    ELSE LET t == AsToolError(errs[i])
         IN IF t # Nil THEN t ELSE AsToolErrorIn(errs, i + 1)

AsToolError(e) ==
    IF e = Nil THEN Nil
    ELSE IF e.kind = "ToolError" THEN e
    ELSE IF e.kind \in {"wrap", "MarshalerError"} THEN AsToolError(e.inner)
    ELSE IF e.kind = "join" THEN AsToolErrorIn(e.errs, 1)
    ELSE Nil

\* err.Error(): the rendered text, as a sequence of characters and literal chunks
RECURSIVE ErrorText(_)
ErrorText(e) ==
    IF e.kind = "ToolError" THEN ToolErrorError(e)
    ELSE IF e.kind = "sentinel" THEN <<e.id>>
    ELSE IF e.kind = "plain" THEN e.text
    ELSE IF e.kind = "wrap" THEN <<e.prefix>> \o ErrorText(e.inner)
    ELSE IF e.kind = "join" THEN ErrorText(e.errs[1]) \o <<"\n">> \o ErrorText(e.errs[2])
    ELSE IF e.kind = "MarshalerError"
         THEN <<"json: error calling MarshalJSON for type json.RawMessage: ">> \o ErrorText(e.inner)
    ELSE IF e.kind = "SyntaxError" THEN <<"invalid JSON">>
    ELSE <<>>

-----------------------------------------------------------------------------
(* encoding/json as the adapters use it, over a small byte alphabet:        *)
(* a value is a number (a run of the digit 1), an array of at most one      *)
(* value, or null; blanks around values are insignificant whitespace.       *)

Bytes == {" ", "1", "[", "]"}

ByteStrings(n) == UNION {[1..k -> Bytes] : k \in 0..n}

NullLiteral == <<"n", "u", "l", "l">>

RECURSIVE SkipWS(_, _)
SkipWS(b, i) == IF i <= Len(b) /\ b[i] = " " THEN SkipWS(b, i + 1) ELSE i

RECURSIVE DigitsEnd(_, _)
DigitsEnd(b, i) == IF i <= Len(b) /\ b[i] = "1" THEN DigitsEnd(b, i + 1) ELSE i

ParseFail == [ok |-> FALSE, next |-> 0, val |-> [t |-> "none"]]

RECURSIVE ParseValue(_, _)
ParseValue(b, i) ==
    LET j == SkipWS(b, i) IN
    IF j > Len(b) THEN ParseFail
    ELSE IF b[j] = "1"
         THEN LET k == DigitsEnd(b, j)
              IN [ok |-> TRUE, next |-> k, val |-> [t |-> "num", digits |-> SubSeq(b, j, k - 1)]]
    ELSE IF b[j] = "["
         THEN LET k == SkipWS(b, j + 1) IN
              IF k <= Len(b) /\ b[k] = "]"
              THEN [ok |-> TRUE, next |-> k + 1, val |-> [t |-> "arr", elems |-> <<>>]]
              ELSE LET e == ParseValue(b, k) IN
                   IF ~e.ok THEN ParseFail
                   ELSE LET m == SkipWS(b, e.next) IN
                        IF m <= Len(b) /\ b[m] = "]"
                        THEN [ok |-> TRUE, next |-> m + 1, val |-> [t |-> "arr", elems |-> <<e.val>>]]
                        ELSE ParseFail
    ELSE IF j + 3 <= Len(b) /\ SubSeq(b, j, j + 3) = NullLiteral
         THEN [ok |-> TRUE, next |-> j + 4, val |-> [t |-> "null"]]
    ELSE ParseFail

\* json.Unmarshal(data, &output) with output of type any
JSONUnmarshal(data) ==
    LET r == ParseValue(data, 1) IN
    IF r.ok /\ SkipWS(data, r.next) > Len(data)
    THEN [ok |-> TRUE, val |-> r.val, err |-> Nil]
    ELSE [ok |-> FALSE, val |-> [t |-> "none"], err |-> SyntaxError]

\* the compact encoding of a decoded value
RECURSIVE JSONEncode(_)
JSONEncode(v) ==
    IF v.t = "num" THEN v.digits
    ELSE IF v.t = "arr"
         THEN <<"[">> \o (IF Len(v.elems) = 0 THEN <<>> ELSE JSONEncode(v.elems[1])) \o <<"]">>
    ELSE NullLiteral

-----------------------------------------------------------------------------
(* options.go: the configuration steps.  Each option is the closure the     *)
(* constructor returns; ApplyOption calls it on a handlerConfig and yields  *)
(* the error it returns and the handlerConfig it leaves behind.             *)

WithName(name) == [opt |-> "WithName", name |-> name]
WithVersion(version) == [opt |-> "WithVersion", version |-> version]
\* types: whether a schema can be inferred from the type parameters TIn, TOut
WithTool(name, description, types, fn) ==
    [opt |-> "WithTool", name |-> name, description |-> description, types |-> types, fn |-> fn]
WithRawTool(name, description, inputSchema, fn) ==
    [opt |-> "WithRawTool", name |-> name, description |-> description,
     inputSchema |-> inputSchema, fn |-> fn]
WithScriptTool(name, description, evaluator) ==
    [opt |-> "WithScriptTool", name |-> name, description |-> description, evaluator |-> evaluator]
WithServer(s) == [opt |-> "WithServer", server |-> s]

\* the schema WithScriptTool supplies
ScriptSchema == [Type |-> "object", Description |-> "Input data for script execution"]

\* the RawToolFunc WithScriptTool wraps around evaluator.Execute
ScriptRawFunc(evaluator) == [f |-> "rawFunc", Execute |-> evaluator]

IsScriptFunc(fn) == "Execute" \in DOMAIN fn

\* the deferred registerFunc closures: what they captured
TypedRegistration(name, description, types, fn) ==
    [adapter |-> "typed", Name |-> name, Description |-> description,
     InputSchema |-> NilSchema, types |-> types, fn |-> fn]
RawRegistration(name, description, inputSchema, fn) ==
    [adapter |-> "raw", Name |-> name, Description |-> description,
     InputSchema |-> inputSchema, types |-> "none", fn |-> fn]

\* faulty variant of ApplyWithName: a name that was set before is kept
ApplyWithNameKeepingFirst(o, c) ==
    IF o.name = <<>> THEN [err |-> ErrEmptyName, cfg |-> c]
    ELSE IF c.name # <<"mcp-server">> THEN [err |-> Nil, cfg |-> c]
    ELSE [err |-> Nil, cfg |-> [c EXCEPT !.name = o.name]]

ApplyWithName(o, c) ==
    IF o.name = <<>> THEN [err |-> ErrEmptyName, cfg |-> c]
    ELSE [err |-> Nil, cfg |-> [c EXCEPT !.name = o.name]]

ApplyWithVersion(o, c) ==
    IF o.version = <<>> THEN [err |-> ErrEmptyVersion, cfg |-> c]
    ELSE [err |-> Nil, cfg |-> [c EXCEPT !.version = o.version]]

\* faulty variant of ApplyWithTool: a nil function is rejected
ApplyWithToolCheckingFunction(o, c) ==
    IF o.name = <<>> THEN [err |-> ErrEmptyToolName, cfg |-> c]
    ELSE IF o.fn = NilFunc THEN [err |-> ErrNilFunction, cfg |-> c]
    ELSE [err |-> Nil,
          cfg |-> [c EXCEPT !.tools =
                      Append(@, TypedRegistration(o.name, o.description, o.types, o.fn))]]

\* faulty variant of ApplyWithTool: the registration is put in front of the others
ApplyWithToolPrepending(o, c) ==
    IF o.name = <<>> THEN [err |-> ErrEmptyToolName, cfg |-> c]
    ELSE [err |-> Nil,
          cfg |-> [c EXCEPT !.tools =
                      <<TypedRegistration(o.name, o.description, o.types, o.fn)>> \o @]]

ApplyWithTool(o, c) ==
    IF o.name = <<>> THEN [err |-> ErrEmptyToolName, cfg |-> c]
    ELSE [err |-> Nil,
          cfg |-> [c EXCEPT !.tools =
                      Append(@, TypedRegistration(o.name, o.description, o.types, o.fn))]]

\* faulty variant of ApplyWithRawTool: the schema is checked before the name
ApplyWithRawToolSchemaFirst(o, c) ==
    IF o.inputSchema = NilSchema THEN [err |-> ErrNilSchema, cfg |-> c]
    ELSE IF o.name = <<>> THEN [err |-> ErrEmptyToolName, cfg |-> c]
    ELSE [err |-> Nil,
          cfg |-> [c EXCEPT !.tools =
                      Append(@, RawRegistration(o.name, o.description, o.inputSchema, o.fn))]]

\* faulty variant of ApplyWithRawTool: a name already in the record is rejected
ApplyWithRawToolRejectingDuplicate(o, c) ==
    IF o.name = <<>> THEN [err |-> ErrEmptyToolName, cfg |-> c]
    ELSE IF o.inputSchema = NilSchema THEN [err |-> ErrNilSchema, cfg |-> c]
    ELSE IF \E i \in 1..Len(c.tools) : c.tools[i].Name = o.name
    THEN [err |-> ErrDuplicateTool, cfg |-> c]
    ELSE [err |-> Nil,
          cfg |-> [c EXCEPT !.tools =
                      Append(@, RawRegistration(o.name, o.description, o.inputSchema, o.fn))]]

ApplyWithRawTool(o, c) ==
    IF o.name = <<>> THEN [err |-> ErrEmptyToolName, cfg |-> c]
    ELSE IF o.inputSchema = NilSchema THEN [err |-> ErrNilSchema, cfg |-> c]
    ELSE [err |-> Nil,
          cfg |-> [c EXCEPT !.tools =
                      Append(@, RawRegistration(o.name, o.description, o.inputSchema, o.fn))]]

\* faulty variant of ApplyWithScriptTool: the schema it supplies requires a property
ApplyWithScriptToolConstrained(o, c) ==
    IF o.name = <<>> THEN [err |-> ErrEmptyToolName, cfg |-> c]
    ELSE IF o.evaluator = NilEvaluator THEN [err |-> ErrNilEvaluator, cfg |-> c]
    ELSE ApplyWithRawTool(
             WithRawTool(o.name, o.description,
                         [Type |-> "object", Description |-> "Input data for script execution",
                          Required |-> <<"script">>],
                         ScriptRawFunc(o.evaluator)), c)

ApplyWithScriptTool(o, c) ==
    IF o.name = <<>> THEN [err |-> ErrEmptyToolName, cfg |-> c]
    ELSE IF o.evaluator = NilEvaluator THEN [err |-> ErrNilEvaluator, cfg |-> c]
    ELSE ApplyWithRawTool(
             WithRawTool(o.name, o.description, ScriptSchema, ScriptRawFunc(o.evaluator)), c)

\* faulty variant of ApplyWithServer: a server injected before is kept
ApplyWithServerKeepingFirst(o, c) ==
    IF o.server = NilServer THEN [err |-> ErrNilServer, cfg |-> c]
    ELSE IF c.server # NilServer THEN [err |-> Nil, cfg |-> c]
    ELSE [err |-> Nil, cfg |-> [c EXCEPT !.server = o.server]]

ApplyWithServer(o, c) ==
    IF o.server = NilServer THEN [err |-> ErrNilServer, cfg |-> c]
    ELSE [err |-> Nil, cfg |-> [c EXCEPT !.server = o.server]]

\* opt(cfg)
ApplyOption(o, c) ==
    CASE o.opt = "WithName" -> ApplyWithName(o, c)
      [] o.opt = "WithVersion" -> ApplyWithVersion(o, c)
      [] o.opt = "WithTool" -> ApplyWithTool(o, c)
      [] o.opt = "WithRawTool" -> ApplyWithRawTool(o, c)
      [] o.opt = "WithScriptTool" -> ApplyWithScriptTool(o, c)
      [] o.opt = "WithServer" -> ApplyWithServer(o, c)

-----------------------------------------------------------------------------
(* the runtime: mcp.Server instances, seen through the calls this layer     *)
(* makes on them                                                            *)

\* "s1" and "s2" are built by the caller beforehand; "new" is the one the entry point builds
InjectedServers == {"s1", "s2"}
ServerIds == InjectedServers \cup {"new"}

NotBuilt == [built |-> FALSE, Name |-> <<>>, Version |-> <<>>, tools |-> <<>>]

\* mcp.NewServer(&mcp.Implementation{Name: name, Version: version}, nil)
NewServer(name, version) == [built |-> TRUE, Name |-> name, Version |-> version, tools |-> <<>>]

\* server.AddTool(tool, handler): the server receives the tool and its handler
ServerAddTool(s, tool, h) == [s EXCEPT !.tools = Append(@, [tool |-> tool, handler |-> h])]

\* createTypedHandler(fn) and createRawHandler(fn): the closures, by what they captured
createTypedHandler(fn) == [adapter |-> "typed", fn |-> fn]
createRawHandler(fn) == [adapter |-> "raw", fn |-> fn]

\* the schema mcp.AddTool infers from the type parameters
InferredSchema == [Type |-> "object", Description |-> "inferred"]

\* tool.registerFunc(server): the result is the server afterwards, or a panic of
\* mcp.AddTool when no schema can be inferred from the tool's types
RegisterFunc(reg, s) ==
    IF reg.adapter = "typed"
    THEN IF reg.types = "struct"
         THEN [panic |-> FALSE,
               server |-> ServerAddTool(s,
                   [Name |-> reg.Name, Description |-> reg.Description, InputSchema |-> InferredSchema],
                   createTypedHandler(reg.fn))]
         ELSE [panic |-> TRUE, server |-> s]
    ELSE [panic |-> FALSE,
          server |-> ServerAddTool(s,
              [Name |-> reg.Name, Description |-> reg.Description, InputSchema |-> reg.InputSchema],
              createRawHandler(reg.fn))]

-----------------------------------------------------------------------------
(* handler.go, tools.go: New and NewToolHandler *)

DefaultName == <<"mcp-server">>
DefaultVersion == <<"1.0.0">>

DefaultConfig == [name |-> DefaultName, version |-> DefaultVersion, tools |-> <<>>, server |-> NilServer]

Entries == {"New", "NewToolHandler"}

\* the tool functions and evaluators the caller has at hand
echoFunc == [f |-> "echoFunc"]
rawFunc == [f |-> "rawFunc"]
RawSchema == [Type |-> "object", Description |-> "Raw tool input"]
Desc == "desc"

\* the options the caller draws from: every configuration step, with valid
\* arguments and with each invalid argument
OptionSet ==
    { WithName(<<>>), WithName(<<"a">>), WithName(<<"b">>),
      WithVersion(<<>>), WithVersion(<<"2">>),
      WithServer(NilServer), WithServer("s1"), WithServer("s2"),
      WithTool(<<>>, Desc, "struct", echoFunc),
      WithTool(<<"t">>, Desc, "struct", echoFunc),
      WithTool(<<"c">>, Desc, "chan", echoFunc),
      WithRawTool(<<>>, Desc, RawSchema, rawFunc),
      WithRawTool(<<"t">>, Desc, NilSchema, rawFunc),
      WithRawTool(<<"u">>, Desc, RawSchema, rawFunc),
      WithScriptTool(<<>>, Desc, "ev"),
      WithScriptTool(<<"t">>, Desc, NilEvaluator),
      WithScriptTool(<<"v">>, Desc, "ev") }

OptSeqs(n) == UNION {[1..k -> OptionSet] : k \in 0..n}

CallIds == {"c1", "c2"}

\* no context.Context
NoContext == [request |-> "none", deadline |-> "none"]

\* the context the runtime hands to the handler for the request of call c
RequestContext(c) == [request |-> c, deadline |-> "none"]

\* a call slot no invocation has used yet
IdleCall ==
    [pc |-> "idle", tool |-> <<>>, h |-> [adapter |-> "none", fn |-> NilFunc],
     ctx |-> NoContext,
     input |-> "none", args |-> [null |-> TRUE, data |-> <<>>], inputJSON |-> <<>>,
     \* what the user function was called with, and the GetTimeout calls made on the evaluator
     fnCtx |-> NoContext, fnIn |-> "none", getTimeout |-> <<>>,
     \* how often the user function was called, whether it has returned, and what it returned
     fnCalls |-> 0, fnReturned |-> FALSE, fnOut |-> "none", fnBytes |-> <<>>, fnErr |-> Nil,
     \* what the handler returned
     result |-> Nil, output |-> "none", err |-> Nil]

InitCalls == calls = [c \in CallIds |-> IdleCall]

\* the goroutines that use the returned Handler
Callers == {"g1", "g2"}

\* a caller that has not called a method of the Handler yet
IdleServing ==
    [pc |-> "idle", method |-> "none",
     \* the arguments: an http.ResponseWriter and *http.Request, or the two streams
     w |-> "none", r |-> "none", stdin |-> "none", stdout |-> "none",
     \* the arguments h.ServeHTTP was called with, directly or by ServeSSE
     hw |-> "none", hr |-> "none",
     \* the calls made on h.httpHandler
     delegated |-> <<>>,
     \* the server and transport of h.server.Run, and the error it ended with
     run |-> [server |-> NilServer, in |-> "none", out |-> "none"], runErr |-> Nil,
     \* what the method returned
     got |-> NilServer, err |-> Nil]

InitServing == serving = [g \in Callers |-> IdleServing]

\* no helper has been called
NoHelper == [fn |-> "none", pc |-> "idle"]

InitHelper == helper = NoHelper

InitNew(optSeqs, entries) ==
    /\ entry \in entries
    /\ opts \in optSeqs
    /\ pc = "apply"
    /\ idx = 1
    /\ cfg = DefaultConfig
    /\ servers = [s \in ServerIds |->
                    IF s \in InjectedServers THEN NewServer(<<"test-server">>, <<"1.0.0">>) ELSE NotBuilt]
    /\ handler = NoHandler
    /\ err = Nil
    /\ server = NilServer
    /\ applied = <<>>

Init == InitNew(OptSeqs(MaxOpts), Entries) /\ InitCalls /\ InitServing /\ InitHelper

\* faulty variant of OptionFailure: the cause is formatted with %v, not wrapped with %w
OptionFailureUnwrapped(e) == PlainError(<<"failed to apply option: ">> \o ErrorText(e))

\* what the entry point returns when opt(cfg) fails
OptionFailure(e) == Wrapf("failed to apply option: ", e)

\* faulty variant of OptionLoopStep: the error of opt(cfg) is kept for the
\* end and the loop goes on
OptionLoopStepReportingLate(r, i) ==
    [pc |-> "apply", idx |-> i + 1, err |-> IF r.err # Nil THEN OptionFailure(r.err) ELSE Nil]

\* faulty variant of OptionLoopStep: the error of opt(cfg) is dropped and the loop goes on
OptionLoopStepIgnoringError(r, i) == [pc |-> "apply", idx |-> i + 1, err |-> Nil]

\* the body of the option loop after opt(cfg) returned r for the option at
\* index i: return on its error, else go on with the next option
OptionLoopStep(r, i) ==
    IF r.err # Nil
    THEN [pc |-> "failed", idx |-> i, err |-> OptionFailure(r.err)]
    ELSE [pc |-> "apply", idx |-> i + 1, err |-> Nil]

\* one round of the option loop
ApplyNextOption ==
    /\ pc = "apply"
    /\ idx <= Len(opts)
    /\ LET r == ApplyOption(opts[idx], cfg)
           step == OptionLoopStep(r, idx)
       IN
       /\ applied' = Append(applied, idx)
       /\ cfg' = r.cfg
       /\ err' = step.err
       /\ pc' = step.pc
       /\ idx' = step.idx
    /\ UNCHANGED <<entry, opts, servers, handler, server, calls, serving, helper>>

\* faulty variant of ChooseServer: a server is built even when one was injected
ChooseServerAlwaysBuilding(c) == [id |-> "new", build |-> TRUE]

\* "Use injected server or create default": which server, and whether to build it
ChooseServer(c) ==
    IF c.server # NilServer
    THEN [id |-> c.server, build |-> FALSE]
    ELSE [id |-> "new", build |-> TRUE]

\* after the loop: use the injected server or build one from name and version
UseOrCreateServer ==
    /\ pc = "apply"
    /\ idx > Len(opts)
    /\ LET s == ChooseServer(cfg) IN
       /\ server' = s.id
       /\ servers' = IF s.build
                     THEN [servers EXCEPT ![s.id] = NewServer(cfg.name, cfg.version)]
                     ELSE servers
       /\ cfg' = IF entry = "NewToolHandler" THEN [cfg EXCEPT !.server = s.id] ELSE cfg
    /\ pc' = "register"
    /\ idx' = 1
    /\ UNCHANGED <<entry, opts, handler, err, applied, calls, serving, helper>>

\* one round of the registration loop
RegisterNextTool ==
    /\ pc = "register"
    /\ idx <= Len(cfg.tools)
    /\ LET r == RegisterFunc(cfg.tools[idx], servers[server]) IN
       /\ servers' = [servers EXCEPT ![server] = r.server]
       /\ IF r.panic
          THEN pc' = "panicked" /\ idx' = idx
          ELSE pc' = "register" /\ idx' = idx + 1
    /\ UNCHANGED <<entry, opts, cfg, handler, err, server, applied, calls, serving, helper>>

\* mcp.NewStreamableHTTPHandler(func(*http.Request) *mcp.Server { return server }, nil)
NewStreamableHTTPHandler(s) == s

\* the transport handler is built and the Handler returned
ReturnHandler ==
    /\ pc = "register"
    /\ idx > Len(cfg.tools)
    /\ handler' = [server |-> server, httpHandler |-> NewStreamableHTTPHandler(server)]
    /\ pc' = "done"
    /\ UNCHANGED <<entry, opts, idx, cfg, servers, err, server, applied, calls, serving, helper>>

\* faulty variant of GetServer: the field is not returned
GetServerReturningNil(h) == NilServer

\* (h *Handler) GetServer()
GetServer(h) == h.server

Next ==
    \/ ApplyNextOption
    \/ UseOrCreateServer
    \/ RegisterNextTool
    \/ ReturnHandler

Spec == Init /\ [][Next]_vars

-----------------------------------------------------------------------------
(* handler.go: the adapters createTypedHandler and createRawHandler return  *)
(* (tools.go: createRawToolHandler is the same code as createRawHandler)    *)

\* &mcp.CallToolResult{Content: []mcp.Content{&mcp.TextContent{Text: text}}, IsError: isError}
CallToolResult(text, isError) ==
    [Content |-> <<[type |-> "text", Text |-> text]>>, IsError |-> isError]

\* json.Marshal(req.Params.Arguments): the arguments are a json.RawMessage, which
\* marshals to "null" when nil, to its compact form when valid, and fails otherwise
MarshalArguments(args) ==
    IF args.null THEN [ok |-> TRUE, bytes |-> NullLiteral, err |-> Nil]
    ELSE LET u == JSONUnmarshal(args.data) IN
         IF u.ok THEN [ok |-> TRUE, bytes |-> JSONEncode(u.val), err |-> Nil]
         ELSE [ok |-> FALSE, bytes |-> <<>>, err |-> MarshalerError(u.err)]

\* faulty variant of RawMarshalFailure: the marshalling error is returned as the error
RawMarshalFailureAborting(e) == [result |-> Nil, err |-> e]

\* the return of the raw handler when marshalling the arguments failed
RawMarshalFailure(e) ==
    [result |-> CallToolResult(<<"Failed to marshal input: ">> \o ErrorText(e), TRUE),
     err |-> Nil]

\* faulty variant of RawHandlerReturn: a Tool Error is returned next to the
\* result that shows it
RawHandlerReturnResultAndError(outputJSON, fnErr) ==
    IF fnErr # Nil
    THEN LET toolErr == AsToolError(fnErr) IN
         IF toolErr # Nil
         THEN [result |-> CallToolResult(toolErr.Message, TRUE), err |-> fnErr]
         ELSE [result |-> Nil, err |-> fnErr]
    ELSE LET u == JSONUnmarshal(outputJSON) IN
         IF ~u.ok
         THEN [result |-> Nil, err |-> ErrorsJoin(ErrInvalidJSON, u.err)]
         ELSE [result |-> CallToolResult(outputJSON, FALSE), err |-> Nil]

\* faulty variant of RawHandlerReturn: a Tool Error is shown by its rendered
\* text, code included, instead of its Message
RawHandlerReturnRenderingError(outputJSON, fnErr) ==
    IF fnErr # Nil
    THEN LET toolErr == AsToolError(fnErr) IN
         IF toolErr # Nil
         THEN [result |-> CallToolResult(ToolErrorError(toolErr), TRUE), err |-> Nil]
         ELSE [result |-> Nil, err |-> fnErr]
    ELSE LET u == JSONUnmarshal(outputJSON) IN
         IF ~u.ok
         THEN [result |-> Nil, err |-> ErrorsJoin(ErrInvalidJSON, u.err)]
         ELSE [result |-> CallToolResult(outputJSON, FALSE), err |-> Nil]

\* faulty variant of RawHandlerReturn: the output is passed on without being decoded
RawHandlerReturnUnchecked(outputJSON, fnErr) ==
    IF fnErr # Nil
    THEN LET toolErr == AsToolError(fnErr) IN
         IF toolErr # Nil
         THEN [result |-> CallToolResult(toolErr.Message, TRUE), err |-> Nil]
         ELSE [result |-> Nil, err |-> fnErr]
    ELSE [result |-> CallToolResult(outputJSON, FALSE), err |-> Nil]

\* faulty variant of RawHandlerReturn: every error of fn is turned into an
\* is-error result
RawHandlerReturnCatchingAll(outputJSON, fnErr) ==
    IF fnErr # Nil
    THEN [result |-> CallToolResult(ErrorText(fnErr), TRUE), err |-> Nil]
    ELSE LET u == JSONUnmarshal(outputJSON) IN
         IF ~u.ok
         THEN [result |-> Nil, err |-> ErrorsJoin(ErrInvalidJSON, u.err)]
         ELSE [result |-> CallToolResult(outputJSON, FALSE), err |-> Nil]

\* faulty variant of RawHandlerReturn: the decoded output is encoded again
RawHandlerReturnReencoding(outputJSON, fnErr) ==
    IF fnErr # Nil
    THEN LET toolErr == AsToolError(fnErr) IN
         IF toolErr # Nil
         THEN [result |-> CallToolResult(toolErr.Message, TRUE), err |-> Nil]
         ELSE [result |-> Nil, err |-> fnErr]
    ELSE LET u == JSONUnmarshal(outputJSON) IN
         IF ~u.ok
         THEN [result |-> Nil, err |-> ErrorsJoin(ErrInvalidJSON, u.err)]
         ELSE [result |-> CallToolResult(JSONEncode(u.val), FALSE), err |-> Nil]

\* the rest of the raw handler, once fn has returned (outputJSON, fnErr)
RawHandlerReturn(outputJSON, fnErr) ==
    IF fnErr # Nil
    THEN LET toolErr == AsToolError(fnErr) IN
         IF toolErr # Nil
         THEN [result |-> CallToolResult(toolErr.Message, TRUE), err |-> Nil]
         ELSE [result |-> Nil, err |-> fnErr]
    ELSE LET u == JSONUnmarshal(outputJSON) IN
         IF ~u.ok
         THEN [result |-> Nil, err |-> ErrorsJoin(ErrInvalidJSON, u.err)]
         ELSE [result |-> CallToolResult(outputJSON, FALSE), err |-> Nil]

\* the zero value of TOut
ZeroOut == "zero"

\* faulty variant of TypedHandlerReturn: the closure keeps a flag across
\* invocations, and once one invocation has returned, the others return the zero value
TypedHandlerReturnOnceOnly(output, fnErr) ==
    IF \E d \in CallIds : calls[d].pc = "done" /\ calls[d].h.adapter = "typed"
    THEN [result |-> Nil, output |-> "zero", err |-> Nil]
    ELSE [result |-> Nil, output |-> IF fnErr # Nil THEN "zero" ELSE output, err |-> fnErr]

\* faulty variant of TypedHandlerReturn: the output of fn is returned with its error
TypedHandlerReturnKeepingOutput(output, fnErr) ==
    [result |-> Nil, output |-> output, err |-> fnErr]

\* the typed handler, once fn has returned (output, fnErr)
TypedHandlerReturn(output, fnErr) ==
    IF fnErr # Nil
    THEN IF AsToolError(fnErr) # Nil
         THEN [result |-> Nil, output |-> ZeroOut, err |-> fnErr]
         ELSE [result |-> Nil, output |-> ZeroOut, err |-> fnErr]
    ELSE [result |-> Nil, output |-> output, err |-> Nil]

\* faulty variant of ScriptRawFuncReturn: the error of Execute is replaced by one
\* carrying its text only
ScriptRawFuncReturnFlattening(executeBytes, executeErr) ==
    [bytes |-> executeBytes,
     err |-> IF executeErr # Nil
             THEN PlainError(<<"script failed: ">> \o ErrorText(executeErr))
             ELSE Nil]

\* the rawFunc of WithScriptTool: it returns what evaluator.Execute returned
ScriptRawFuncReturn(executeBytes, executeErr) == [bytes |-> executeBytes, err |-> executeErr]

\* faulty variant of ScriptRawFuncContext: Execute gets a context that ends
\* after the evaluator's declared timeout
ScriptRawFuncContextWithTimeout(ctx, evaluator) == [ctx EXCEPT !.deadline = "GetTimeout"]

\* the context the rawFunc of WithScriptTool calls evaluator.Execute with
ScriptRawFuncContext(ctx, evaluator) == ctx

\* the calls of evaluator.GetTimeout that WithScriptTool and its rawFunc make: none
ScriptRawFuncTimeoutCalls(evaluator) == <<>>

\* faulty variant of TypedHandlerInput: fn gets the zero value, not the input
TypedHandlerInputZeroed(input) == "zero"

\* the input the typed handler calls fn with
TypedHandlerInput(input) == input

\* the bytes the raw handler calls fn with, inputJSON being the marshalled arguments
RawHandlerInput(inputJSON) == inputJSON

-----------------------------------------------------------------------------
(* what the runtime and the user functions may do *)

TypedInputs == {"in1", "in2"}
TypedOutputs == {ZeroOut, "out1"}

\* the arguments of a tools/call request
ArgumentSet ==
    { [null |-> TRUE, data |-> <<>>],
      [null |-> FALSE, data |-> <<" ", "1">>],
      [null |-> FALSE, data |-> <<"[">>] }

ToolErrors == {ToolError(m, c) : m \in {<<>>, <<"m">>}, c \in {<<>>, <<"V">>}}

\* the errors a user function returns: Tool Errors, plain errors, and errors wrapping either
UserErrors ==
    ToolErrors
    \cup {PlainError(<<"p">>), ErrInvalidJSON,
          Wrapf("ctx: ", ToolError(<<"m">>, <<"V">>)),
          Wrapf("ctx: ", PlainError(<<"p">>)),
          ErrorsJoin(PlainError(<<"p">>), ToolError(<<"m">>, <<>>))}

TypedOutcomes == [out : TypedOutputs, err : {Nil} \cup UserErrors]

RawOutcomes ==
    [bytes : ByteStrings(MaxLen), err : {Nil}]
    \cup [bytes : {<<>>, <<"1">>}, err : UserErrors]

\* the tools registered on the handler's server
RegisteredTools == servers[GetServer(handler)].tools

\* the runtime dispatches a call to a typed tool: it has decoded the input, the
\* handler calls fn
TypedInvoke(c) ==
    /\ pc = "done"
    /\ calls[c].pc = "idle"
    /\ \E i \in 1..Len(RegisteredTools), input \in TypedInputs :
          LET t == RegisteredTools[i] IN
          /\ t.handler.adapter = "typed"
          /\ calls' = [calls EXCEPT ![c] =
                [@ EXCEPT !.pc = IF t.handler.fn = NilFunc THEN "panicked" ELSE "running",
                          !.tool = t.tool.Name, !.h = t.handler, !.input = input,
                          !.ctx = RequestContext(c), !.fnCtx = RequestContext(c),
                          !.fnIn = TypedHandlerInput(input),
                          !.fnCalls = IF t.handler.fn = NilFunc THEN 0 ELSE 1]]
    /\ UNCHANGED <<entry, opts, pc, idx, cfg, servers, handler, err, server, applied, serving, helper>>

\* fn returns to the typed handler, which returns to the runtime
TypedReturn(c) ==
    /\ calls[c].pc = "running"
    /\ calls[c].h.adapter = "typed"
    /\ \E o \in TypedOutcomes :
          LET r == TypedHandlerReturn(o.out, o.err) IN
          calls' = [calls EXCEPT ![c] =
                [@ EXCEPT !.pc = "done", !.fnReturned = TRUE, !.fnOut = o.out, !.fnErr = o.err,
                          !.result = r.result, !.output = r.output, !.err = r.err]]
    /\ UNCHANGED <<entry, opts, pc, idx, cfg, servers, handler, err, server, applied, serving, helper>>

\* the runtime dispatches a call to a raw or script tool: the handler marshals
\* the arguments and, unless that fails, calls fn with the bytes
RawInvoke(c) ==
    /\ pc = "done"
    /\ calls[c].pc = "idle"
    /\ \E i \in 1..Len(RegisteredTools), args \in ArgumentSet :
          LET t == RegisteredTools[i]
              m == MarshalArguments(args)
          IN
          /\ t.handler.adapter = "raw"
          /\ IF ~m.ok
             THEN calls' = [calls EXCEPT ![c] =
                    [@ EXCEPT !.pc = "done", !.tool = t.tool.Name, !.h = t.handler, !.args = args,
                              !.ctx = RequestContext(c),
                              !.result = RawMarshalFailure(m.err).result,
                              !.err = RawMarshalFailure(m.err).err]]
             ELSE calls' = [calls EXCEPT ![c] =
                    [@ EXCEPT !.pc = IF t.handler.fn = NilFunc THEN "panicked" ELSE "running",
                              !.tool = t.tool.Name, !.h = t.handler, !.args = args,
                              !.ctx = RequestContext(c),
                              !.fnCtx = IF IsScriptFunc(t.handler.fn)
                                        THEN ScriptRawFuncContext(RequestContext(c), t.handler.fn.Execute)
                                        ELSE RequestContext(c),
                              !.getTimeout = IF IsScriptFunc(t.handler.fn)
                                             THEN ScriptRawFuncTimeoutCalls(t.handler.fn.Execute)
                                             ELSE <<>>,
                              !.inputJSON = RawHandlerInput(m.bytes),
                              !.fnCalls = IF t.handler.fn = NilFunc THEN 0 ELSE 1]]
    /\ UNCHANGED <<entry, opts, pc, idx, cfg, servers, handler, err, server, applied, serving, helper>>

\* fn (for a script tool: evaluator.Execute, through rawFunc) returns to the raw
\* handler, which returns to the runtime
RawReturn(c) ==
    /\ calls[c].pc = "running"
    /\ calls[c].h.adapter = "raw"
    /\ \E o \in RawOutcomes :
          LET f == IF IsScriptFunc(calls[c].h.fn)
                   THEN ScriptRawFuncReturn(o.bytes, o.err)
                   ELSE o
              r == RawHandlerReturn(f.bytes, f.err)
          IN
          calls' = [calls EXCEPT ![c] =
                [@ EXCEPT !.pc = "done", !.fnReturned = TRUE, !.fnBytes = o.bytes, !.fnErr = o.err,
                          !.result = r.result, !.err = r.err]]
    /\ UNCHANGED <<entry, opts, pc, idx, cfg, servers, handler, err, server, applied, serving, helper>>

\* a handler with one typed, one raw and one script tool
AdapterOpts ==
    << WithTool(<<"t">>, Desc, "struct", echoFunc),
       WithRawTool(<<"u">>, Desc, RawSchema, rawFunc),
       WithScriptTool(<<"v">>, Desc, "ev") >>

InitAdapter == InitNew({AdapterOpts}, Entries) /\ InitCalls /\ InitServing /\ InitHelper

NextAdapter ==
    \/ Next
    \/ \E c \in CallIds : TypedInvoke(c)
    \/ \E c \in CallIds : TypedReturn(c)
    \/ \E c \in CallIds : RawInvoke(c)
    \/ \E c \in CallIds : RawReturn(c)

SpecAdapter == InitAdapter /\ [][NextAdapter]_vars

-----------------------------------------------------------------------------
(* Properties of construction, checked under Spec *)

\* whether the option at index i of opts returns an error (it does not depend on the config)
OptionFails(i) == ApplyOption(opts[i], DefaultConfig).err # Nil

\* the index of the first option of opts that returns an error, 0 when none does
FirstFailing ==
    IF \E i \in 1..Len(opts) : OptionFails(i)
    THEN CHOOSE i \in 1..Len(opts) : OptionFails(i) /\ \A j \in 1..(i - 1) : ~OptionFails(j)
    ELSE 0

NoServerTouched ==
    /\ ~servers["new"].built
    /\ \A s \in ServerIds : servers[s].tools = <<>>

\* C1: options are applied strictly in the supplied order, and the first option
\* that returns an error aborts construction: a nil handler and a non-nil error
\* are returned, no later option is applied, no server is built and no tool
\* registration is replayed.
C1_FirstFailingOptionAborts ==
    /\ applied = [i \in 1..Len(applied) |-> i]
    /\ Len(applied) <= Len(opts)
    /\ (err # Nil) <=> (pc = "failed")
    /\ FirstFailing # 0 =>
          /\ Len(applied) <= FirstFailing
          /\ pc \in {"apply", "failed"}
          /\ handler = NoHandler
          /\ NoServerTouched
          /\ pc = "failed" => /\ Len(applied) = FirstFailing
                              /\ err # Nil
    /\ FirstFailing = 0 => pc # "failed"

\* C1 witness: the second of three options failed after a tool had been collected
C1_Witness ==
    /\ pc = "failed"
    /\ Len(opts) = 3
    /\ applied = <<1, 2>>
    /\ Len(cfg.tools) = 1
    /\ err # Nil /\ handler = NoHandler

\* the sentinels the configuration table gives for an option, by its arguments alone
ClaimedSentinels(o) ==
    (IF o.opt = "WithName" /\ o.name = <<>> THEN {ErrEmptyName} ELSE {})
    \cup (IF o.opt = "WithVersion" /\ o.version = <<>> THEN {ErrEmptyVersion} ELSE {})
    \cup (IF o.opt \in {"WithTool", "WithRawTool", "WithScriptTool"} /\ o.name = <<>>
          THEN {ErrEmptyToolName} ELSE {})
    \cup (IF o.opt = "WithRawTool" /\ o.inputSchema = NilSchema THEN {ErrNilSchema} ELSE {})
    \cup (IF o.opt = "WithServer" /\ o.server = NilServer THEN {ErrNilServer} ELSE {})
    \cup (IF o.opt = "WithScriptTool" /\ o.evaluator = NilEvaluator THEN {ErrNilEvaluator} ELSE {})

\* C2: an invalid configuration step fails construction with its own sentinel,
\* found by errors.Is on the returned error and by no other configuration
\* sentinel, whatever the steps before it; a step with valid arguments does not fail.
C2_OwnSentinel ==
    /\ pc = "failed" =>
          LET o == opts[idx] IN
          /\ ClaimedSentinels(o) # {}
          /\ \E sentinel \in ClaimedSentinels(o) : ErrorsIs(err, sentinel)
          /\ \A other \in ConfigSentinels \ ClaimedSentinels(o) : ~ErrorsIs(err, other)
    /\ \A i \in 1..Len(applied) :
          ClaimedSentinels(opts[i]) # {} => (pc = "failed" /\ idx = i)

\* C2 witness: a nil schema failed construction after two valid steps
C2_Witness ==
    /\ pc = "failed"
    /\ idx = 3
    /\ opts[3].opt = "WithRawTool"
    /\ ErrorsIs(err, ErrNilSchema)

IsToolStep(o) == o.opt \in {"WithTool", "WithRawTool", "WithScriptTool"}

\* the AddTool call an add-tool step asks for
ExpectedCall(o) ==
    CASE o.opt = "WithTool" ->
            [tool |-> [Name |-> o.name, Description |-> o.description, InputSchema |-> InferredSchema],
             handler |-> [adapter |-> "typed", fn |-> o.fn]]
      [] o.opt = "WithRawTool" ->
            [tool |-> [Name |-> o.name, Description |-> o.description, InputSchema |-> o.inputSchema],
             handler |-> [adapter |-> "raw", fn |-> o.fn]]
      [] o.opt = "WithScriptTool" ->
            [tool |-> [Name |-> o.name, Description |-> o.description, InputSchema |-> ScriptSchema],
             handler |-> [adapter |-> "raw", fn |-> ScriptRawFunc(o.evaluator)]]

\* the AddTool calls the add-tool steps of opts ask for, in the order of the steps
ExpectedCalls ==
    LET steps == SelectSeq(opts, IsToolStep)
    IN [i \in 1..Len(steps) |-> ExpectedCall(steps[i])]

\* C3: when every step succeeded, the server receives exactly one AddTool call
\* per add-tool step, in the order of the steps: at any moment of the replay the
\* calls made are the first ones asked for, and all of them once the handler is
\* returned; no other server receives any.
C3_OneRegistrationPerStepInOrder ==
    pc \in {"register", "panicked", "done"} =>
        /\ Len(servers[server].tools) <= Len(ExpectedCalls)
        /\ servers[server].tools = SubSeq(ExpectedCalls, 1, Len(servers[server].tools))
        /\ Len(servers[server].tools) = idx - 1
        /\ pc = "done" => servers[server].tools = ExpectedCalls
        /\ \A s \in ServerIds \ {server} : servers[s].tools = <<>>

\* C3 witness: a raw, a typed and a script tool were registered, in this order
C3_Witness ==
    /\ pc = "done"
    /\ Len(servers[server].tools) = 3
    /\ servers[server].tools[1].tool.Name = <<"u">>
    /\ servers[server].tools[2].tool.Name = <<"t">>
    /\ servers[server].tools[3].tool.Name = <<"v">>

\* the servers the WithServer steps of opts inject
Injected == {opts[i].server : i \in {j \in 1..Len(opts) : opts[j].opt = "WithServer"}}

\* C4: when a server was injected and construction succeeds, no server is built
\* from name and version, the injected server keeps the name and version it was
\* built with, and GetServer returns the injected server itself.
C4_InjectedServerIsUsed ==
    (pc \in {"register", "panicked", "done"} /\ Injected # {}) =>
        /\ ~servers["new"].built
        /\ server \in Injected
        /\ \A s \in InjectedServers :
              servers[s].Name = <<"test-server">> /\ servers[s].Version = <<"1.0.0">>
        /\ pc = "done" => /\ GetServer(handler) \in Injected
                          /\ Cardinality(Injected) = 1 => Injected = {GetServer(handler)}

\* C4 witness: a name, a version and a server were given, and the server is returned
C4_Witness ==
    /\ pc = "done"
    /\ opts = <<WithName(<<"a">>), WithVersion(<<"2">>), WithServer("s1")>>
    /\ GetServer(handler) = "s1"
    /\ cfg.name = <<"a">>

-----------------------------------------------------------------------------
(* Properties of the adapters, checked under SpecAdapter *)

\* the invocations of a raw handler (of a raw or a script tool) that have
\* returned after calling the user function
RawReturned == {c \in CallIds : calls[c].pc = "done" /\ calls[c].h.adapter = "raw"
                                /\ calls[c].fnCalls = 1}

\* the invocations of a typed handler that have returned
TypedReturned == {c \in CallIds : calls[c].pc = "done" /\ calls[c].h.adapter = "typed"}

\* C5: when the user function of a raw tool returns a Tool Error, the raw
\* handler returns an is-error result whose text is the error's Message (not
\* the rendered "[code] message") and a nil error.
C5_RawToolErrorShowsMessage ==
    \A c \in RawReturned :
        calls[c].fnErr.kind = "ToolError" =>
            /\ calls[c].result = CallToolResult(calls[c].fnErr.Message, TRUE)
            /\ calls[c].err = Nil

\* C5 witness: a Tool Error with a code was returned and only its message is shown
C5_Witness ==
    \E c \in RawReturned :
        /\ calls[c].fnErr = ToolError(<<"m">>, <<"V">>)
        /\ calls[c].result.Content[1].Text = <<"m">>

\* C6: when the user function of a raw tool succeeds with bytes that are no
\* valid JSON, the raw handler returns no result and an error that is
\* ErrInvalidJSON joined with the decode error.
C6_InvalidOutputFails ==
    \A c \in RawReturned :
        (calls[c].fnErr = Nil /\ ~JSONUnmarshal(calls[c].fnBytes).ok) =>
            /\ calls[c].result = Nil
            /\ calls[c].err # Nil
            /\ ErrorsIs(calls[c].err, ErrInvalidJSON)
            /\ ErrorsIs(calls[c].err, JSONUnmarshal(calls[c].fnBytes).err)
            /\ calls[c].err.kind = "join"

\* C6 witness: the function returned an unfinished array
C6_Witness ==
    \E c \in RawReturned :
        /\ calls[c].fnErr = Nil
        /\ calls[c].fnBytes = <<"[">>
        /\ ErrorsIs(calls[c].err, ErrInvalidJSON)

\* C7: when the user function of a raw tool returns an error that is not a Tool
\* Error (as errors.As decides: none in its chain), the raw handler returns no
\* result and that same error.
C7_OtherErrorPropagates ==
    \A c \in RawReturned :
        (calls[c].fnErr # Nil /\ AsToolError(calls[c].fnErr) = Nil) =>
            /\ calls[c].result = Nil
            /\ calls[c].err = calls[c].fnErr

\* C7 witness: a wrapped plain error came back as it was
C7_Witness ==
    \E c \in RawReturned :
        /\ calls[c].fnErr = Wrapf("ctx: ", PlainError(<<"p">>))
        /\ calls[c].err = calls[c].fnErr
        /\ calls[c].result = Nil

\* C8: when the user function of a raw tool returns valid JSON, the raw handler
\* returns a result with one text content holding exactly the returned bytes,
\* the is-error flag unset, and a nil error.
C8_ValidOutputPassedVerbatim ==
    \A c \in RawReturned :
        (calls[c].fnErr = Nil /\ JSONUnmarshal(calls[c].fnBytes).ok) =>
            /\ calls[c].result # Nil
            /\ Len(calls[c].result.Content) = 1
            /\ calls[c].result.Content[1].Text = calls[c].fnBytes
            /\ ~calls[c].result.IsError
            /\ calls[c].err = Nil

\* C8 witness: output with a leading blank, which encoding it again would drop
C8_Witness ==
    \E c \in RawReturned :
        /\ calls[c].fnErr = Nil
        /\ calls[c].fnBytes = <<" ", "1">>
        /\ calls[c].result # Nil
        /\ calls[c].result.Content[1].Text = <<" ", "1">>

\* C9: the typed handler returns a nil result always; the output of fn and a nil
\* error when fn succeeded; the zero output and the very error of fn when fn failed.
C9_TypedHandlerReturns ==
    \A c \in TypedReturned :
        /\ calls[c].fnCalls = 1
        /\ calls[c].result = Nil
        /\ calls[c].fnErr = Nil => (calls[c].output = calls[c].fnOut /\ calls[c].err = Nil)
        /\ calls[c].fnErr # Nil => (calls[c].output = ZeroOut /\ calls[c].err = calls[c].fnErr)

\* C9 witness: fn returned an output together with a Tool Error
C9_Witness ==
    \E c \in TypedReturned :
        /\ calls[c].fnOut = "out1"
        /\ calls[c].fnErr = ToolError(<<"m">>, <<>>)
        /\ calls[c].output = ZeroOut
        /\ calls[c].err = calls[c].fnErr

\* the invocations, of any adapter, whose user function returned a Tool Error
ReturnedToolError ==
    {c \in CallIds : calls[c].pc = "done" /\ calls[c].fnCalls = 1
                     /\ calls[c].fnErr.kind = "ToolError"}

\* C10 as claimed: for the typed, the raw and the script adapter alike, a Tool
\* Error of the user function is not returned as an error but shown in the result.
C10_ToolErrorNeverEscapes ==
    \A c \in ReturnedToolError :
        /\ calls[c].err = Nil
        /\ calls[c].result = CallToolResult(calls[c].fnErr.Message, TRUE)

\* C10 as amended: the handlers of raw and script tools show a Tool Error of the
\* user function in the result and return a nil error; the handler of a typed
\* tool returns it as its error, with a nil result.
C10_ToolErrorPerAdapter ==
    \A c \in ReturnedToolError :
        /\ calls[c].h.adapter \in {"raw", "typed"}
        /\ calls[c].h.adapter = "raw" =>
              /\ calls[c].err = Nil
              /\ calls[c].result # Nil
              /\ calls[c].result.IsError
              /\ calls[c].result.Content = <<[type |-> "text", Text |-> calls[c].fnErr.Message]>>
        /\ calls[c].h.adapter = "typed" =>
              /\ calls[c].err = calls[c].fnErr
              /\ calls[c].result = Nil

\* C10 witness: one call of the script tool and one of the typed tool, both
\* with a Tool Error from the user function
C10_Witness ==
    \E c, d \in ReturnedToolError :
        /\ calls[c].tool = <<"v">> /\ IsScriptFunc(calls[c].h.fn)
        /\ calls[c].result # Nil /\ calls[c].result.IsError
        /\ calls[d].tool = <<"t">>
        /\ calls[d].err # Nil

-----------------------------------------------------------------------------
(* errors.go: building a Tool Error and rendering it *)

\* the characters of messages and of codes
TextChars == {"m", " ", "["}
CodeChars == {"V", "]"}

Texts(chars, n) == UNION {[1..k -> chars] : k \in 0..n}

ToolErrorConstructors == {"NewToolError", "NewToolErrorWithCode", "ValidationError", "ProcessingError"}

\* the caller is about to build a Tool Error from a message and, for
\* NewToolErrorWithCode, a code
InitToolError ==
    /\ InitNew({<<>>}, {"New"}) /\ InitCalls /\ InitServing
    /\ helper \in [fn : ToolErrorConstructors, pc : {"idle"},
                   message : Texts(TextChars, MaxText), code : Texts(CodeChars, MaxText)]

\* the constructor returns the *ToolError
BuildToolError ==
    /\ helper.fn \in ToolErrorConstructors
    /\ helper.pc = "idle"
    /\ LET e == CASE helper.fn = "NewToolError" -> NewToolError(helper.message)
                   [] helper.fn = "NewToolErrorWithCode" -> NewToolErrorWithCode(helper.message, helper.code)
                   [] helper.fn = "ValidationError" -> ValidationError(helper.message)
                   [] helper.fn = "ProcessingError" -> ProcessingError(helper.message)
       IN helper' = [fn |-> helper.fn, pc |-> "built", e |-> e]
    /\ UNCHANGED <<entry, opts, pc, idx, cfg, servers, handler, err, server, applied, calls, serving>>

\* Error() is called on it
RenderToolError ==
    /\ helper.fn \in ToolErrorConstructors
    /\ helper.pc = "built"
    /\ helper' = [fn |-> helper.fn, pc |-> "rendered", e |-> helper.e, text |-> ToolErrorError(helper.e)]
    /\ UNCHANGED <<entry, opts, pc, idx, cfg, servers, handler, err, server, applied, calls, serving>>

NextToolError ==
    \/ BuildToolError
    \/ RenderToolError

SpecToolError == InitToolError /\ [][NextToolError]_vars

\* a Tool Error whose Error() has returned
Rendered == helper.fn \in ToolErrorConstructors /\ helper.pc = "rendered"

\* C11: for every message and code, Error() renders a Tool Error with a
\* non-empty code as "[", the code, "] ", the message, and one with an empty
\* code as exactly the message, without brackets (the empty message as the
\* empty string).
C11_ErrorRendering ==
    Rendered =>
        LET code == helper.e.Code
            message == helper.e.Message
            text == helper.text
            n == Len(code)
        IN
        IF code # <<>>
        THEN /\ Len(text) = n + Len(message) + 3
             /\ text[1] = "["
             /\ SubSeq(text, 2, n + 1) = code
             /\ text[n + 2] = "]"
             /\ text[n + 3] = " "
             /\ SubSeq(text, n + 4, Len(text)) = message
        ELSE /\ text = message
             /\ (message = <<>> => text = <<>>)

\* a Tool Error with a caller-supplied code and a message with a bracket in it
\* has been rendered
C11_Witness ==
    /\ Rendered
    /\ helper.fn = "NewToolErrorWithCode"
    /\ helper.e.Code = <<"V", "]">>
    /\ helper.e.Message = <<"[", "m">>
    /\ helper.text = <<"[", "V", "]", "]", " ", "[", "m">>

-----------------------------------------------------------------------------
(* handler.go, options.go: the name and version the server is built from *)

\* names and versions with spaces around them and in upper case, next to plain
\* ones, and the steps that decide whether a server is built
NameOptionSet ==
    { WithName(<<>>), WithName(<<"a">>), WithName(<<" ", "a", " ">>), WithName(<<"A">>),
      WithVersion(<<>>), WithVersion(<<"2">>), WithVersion(<<" ", "2">>),
      WithServer("s1"),
      WithTool(<<"t">>, Desc, "struct", echoFunc) }

NameOptSeqs(n) == UNION {[1..k -> NameOptionSet] : k \in 0..n}

InitNames == InitNew(NameOptSeqs(MaxOpts), Entries) /\ InitCalls /\ InitServing /\ InitHelper

SpecNames == InitNames /\ [][Next]_vars

\* the argument of the last step of the given kind in opts, or the default
LastSet(kind, field, default) ==
    LET I == {i \in 1..Len(opts) : opts[i].opt = kind} IN
    IF I = {} THEN default
    ELSE opts[CHOOSE i \in I : \A j \in I : j <= i][field]

\* C12: when construction succeeds and no server was injected, the server was
\* built with the name of the last set-name step, exactly as given (spaces and
\* case kept), or "mcp-server" when there is none, and with the version of the
\* last set-version step, exactly as given, or "1.0.0" when there is none.
C12_LastNameAndVersionStored ==
    (pc = "done" /\ Injected = {}) =>
        /\ handler.server = "new"
        /\ servers["new"].built
        /\ servers["new"].Name = LastSet("WithName", "name", <<"mcp-server">>)
        /\ servers["new"].Version = LastSet("WithVersion", "version", <<"1.0.0">>)

\* a server was built after two set-name steps, the last one with spaces
\* around the name, and a set-version step with a leading space
C12_Witness ==
    /\ pc = "done"
    /\ opts = <<WithName(<<"a">>), WithName(<<" ", "a", " ">>), WithVersion(<<" ", "2">>)>>
    /\ servers["new"].Name = <<" ", "a", " ">>
    /\ servers["new"].Version = <<" ", "2">>

-----------------------------------------------------------------------------
(* handler.go 47-50, options.go 53-61: the replay of the registrations *)

\* C13: construction never panics on a bad configuration: whatever the option
\* sequence, the entry point ends by returning a handler and a nil error, or a
\* nil handler and an error, also when the runtime rejects a registration
\* during replay (a typed tool whose types give no schema).
C13_ConstructionNeverPanics ==
    /\ pc # "panicked"
    /\ (pc = "done" => (handler # NoHandler /\ err = Nil))
    /\ (pc = "failed" => (handler = NoHandler /\ err # Nil))

-----------------------------------------------------------------------------
(* handler.go 64-84: the methods of the Handler, called by concurrent callers *)

\* the http.ResponseWriters and *http.Requests of the inbound exchanges
ResponseWriters == {"w1", "w2"}
Requests == {"r1", "r2"}

\* the io.Readers and io.Writers a caller has: the standard streams of the
\* process and the two ends of a pipe
Readers == {"os.Stdin", "pipeReader"}
Writers == {"os.Stdout", "pipeWriter"}

\* &mcp.StdioTransport{}: the transport over the standard streams of the process
StdioTransport == [in |-> "os.Stdin", out |-> "os.Stdout"]

\* the transport ServeStdio(stdin, stdout) builds for h.server.Run
ServeStdioTransport(stdin, stdout) == StdioTransport

\* what ServeStdio returns when h.server.Run returned runErr
ServeStdioReturn(runErr) == runErr

\* the errors h.server.Run ends with
RunErrors == {PlainError(<<"EOF">>), PlainError(<<"connection closed">>)}

\* faulty variant of ServeSSEDelegation: the writer is wrapped before it is passed on
ServeSSEDelegationWrapping(w, r) == [w |-> "eventStreamWriter", r |-> r]

\* the arguments ServeSSE(w, r) calls h.ServeHTTP with
ServeSSEDelegation(w, r) == [w |-> w, r |-> r]

\* the call ServeHTTP(w, r) makes: h.httpHandler.ServeHTTP(w, r)
ServeHTTPDelegation(h, w, r) == [to |-> h.httpHandler, w |-> w, r |-> r]

\* g calls h.GetServer(), which returns at once
CallGetServer(g) ==
    /\ pc = "done"
    /\ serving[g].pc = "idle"
    /\ serving' = [serving EXCEPT ![g] =
            [@ EXCEPT !.pc = "done", !.method = "GetServer", !.got = GetServer(handler)]]
    /\ UNCHANGED <<entry, opts, pc, idx, cfg, servers, handler, err, server, applied, calls, helper>>

\* g calls h.ServeHTTP(w, r)
CallServeHTTP(g) ==
    /\ pc = "done"
    /\ serving[g].pc = "idle"
    /\ \E w \in ResponseWriters, r \in Requests :
          serving' = [serving EXCEPT ![g] =
              [@ EXCEPT !.pc = "ServeHTTP", !.method = "ServeHTTP", !.w = w, !.r = r,
                        !.hw = w, !.hr = r]]
    /\ UNCHANGED <<entry, opts, pc, idx, cfg, servers, handler, err, server, applied, calls, helper>>

\* g calls h.ServeSSE(w, r)
CallServeSSE(g) ==
    /\ pc = "done"
    /\ serving[g].pc = "idle"
    /\ \E w \in ResponseWriters, r \in Requests :
          serving' = [serving EXCEPT ![g] =
              [@ EXCEPT !.pc = "ServeSSE", !.method = "ServeSSE", !.w = w, !.r = r]]
    /\ UNCHANGED <<entry, opts, pc, idx, cfg, servers, handler, err, server, applied, calls, helper>>

\* the body of ServeSSE: h.ServeHTTP(w, r)
ServeSSEDelegates(g) ==
    /\ serving[g].pc = "ServeSSE"
    /\ LET a == ServeSSEDelegation(serving[g].w, serving[g].r) IN
       serving' = [serving EXCEPT ![g] = [@ EXCEPT !.pc = "ServeHTTP", !.hw = a.w, !.hr = a.r]]
    /\ UNCHANGED <<entry, opts, pc, idx, cfg, servers, handler, err, server, applied, calls, helper>>

\* the body of ServeHTTP: h.httpHandler.ServeHTTP(w, r)
ServeHTTPDelegates(g) ==
    /\ serving[g].pc = "ServeHTTP"
    /\ serving' = [serving EXCEPT ![g] =
            [@ EXCEPT !.pc = "dispatched",
                      !.delegated = Append(@, ServeHTTPDelegation(handler, serving[g].hw, serving[g].hr))]]
    /\ UNCHANGED <<entry, opts, pc, idx, cfg, servers, handler, err, server, applied, calls, helper>>

\* the transport handler has served the exchange: ServeHTTP returns, and with it ServeSSE
DispatchReturns(g) ==
    /\ serving[g].pc = "dispatched"
    /\ serving' = [serving EXCEPT ![g] = [@ EXCEPT !.pc = "done"]]
    /\ UNCHANGED <<entry, opts, pc, idx, cfg, servers, handler, err, server, applied, calls, helper>>

\* g calls h.ServeStdio(stdin, stdout): the transport is built and h.server.Run
\* is entered, where g stays until the exchange ends
CallServeStdio(g) ==
    /\ pc = "done"
    /\ serving[g].pc = "idle"
    /\ \E stdin \in Readers, stdout \in Writers :
          LET t == ServeStdioTransport(stdin, stdout) IN
          serving' = [serving EXCEPT ![g] =
              [@ EXCEPT !.pc = "Run", !.method = "ServeStdio", !.stdin = stdin, !.stdout = stdout,
                        !.run = [server |-> handler.server, in |-> t.in, out |-> t.out]]]
    /\ UNCHANGED <<entry, opts, pc, idx, cfg, servers, handler, err, server, applied, calls, helper>>

\* the exchange ends: h.server.Run returns, then ServeStdio
RunReturns(g) ==
    /\ serving[g].pc = "Run"
    /\ \E e \in {Nil} \cup RunErrors :
          serving' = [serving EXCEPT ![g] =
              [@ EXCEPT !.pc = "done", !.runErr = e, !.err = ServeStdioReturn(e)]]
    /\ UNCHANGED <<entry, opts, pc, idx, cfg, servers, handler, err, server, applied, calls, helper>>

\* a handler over a built server and one over an injected server, each with a tool
ServeOpts ==
    { <<WithName(<<"a">>), WithRawTool(<<"u">>, Desc, RawSchema, rawFunc)>>,
      <<WithServer("s1"), WithTool(<<"t">>, Desc, "struct", echoFunc)>> }

InitServe == InitNew(ServeOpts, Entries) /\ InitCalls /\ InitServing /\ InitHelper

NextServe ==
    \/ Next
    \/ \E g \in Callers : CallGetServer(g)
    \/ \E g \in Callers : CallServeHTTP(g)
    \/ \E g \in Callers : CallServeSSE(g)
    \/ \E g \in Callers : ServeSSEDelegates(g)
    \/ \E g \in Callers : ServeHTTPDelegates(g)
    \/ \E g \in Callers : DispatchReturns(g)
    \/ \E g \in Callers : CallServeStdio(g)
    \/ \E g \in Callers : RunReturns(g)

SpecServe == InitServe /\ [][NextServe]_vars

\* C14: ServeStdio(stdin, stdout) runs the server over the two streams it was
\* given, keeps the caller until the exchange has ended, and returns the error
\* the exchange ended with, unchanged (nil when there was none).
C14_StdioRunsOverSuppliedStreams ==
    \A g \in Callers :
        serving[g].method = "ServeStdio" =>
            /\ serving[g].pc \in {"Run", "done"}
            /\ serving[g].run.server = handler.server
            /\ serving[g].run.in = serving[g].stdin
            /\ serving[g].run.out = serving[g].stdout
            /\ (serving[g].pc = "done" => serving[g].err = serving[g].runErr)
            /\ (serving[g].pc = "Run" => serving[g].err = Nil)

\* the calls of ServeHTTP and ServeSSE that have reached the transport handler
Dispatched(method) ==
    {g \in Callers : serving[g].method = method /\ serving[g].pc \in {"dispatched", "done"}}

\* C15: for every writer and request, ServeSSE does what ServeHTTP does: one
\* call of the transport handler's ServeHTTP, of the same transport handler,
\* with the writer and the request it was given itself, and nothing else.
C15_ServeSSEDelegatesLikeServeHTTP ==
    /\ \A g \in Dispatched("ServeHTTP") \cup Dispatched("ServeSSE") :
          serving[g].delegated =
              <<[to |-> handler.httpHandler, w |-> serving[g].w, r |-> serving[g].r]>>
    /\ \A g \in Dispatched("ServeSSE"), k \in Dispatched("ServeHTTP") :
          (serving[g].w = serving[k].w /\ serving[g].r = serving[k].r)
              => serving[g].delegated = serving[k].delegated
    /\ \A g \in Callers :
          serving[g].method \in {"ServeHTTP", "ServeSSE"} =>
              /\ serving[g].got = NilServer /\ serving[g].err = Nil
              /\ serving[g].run = IdleServing.run
              /\ (serving[g].pc \notin {"dispatched", "done"} => serving[g].delegated = <<>>)

\* one caller has served a request through ServeSSE and the other the same
\* request with the same writer through ServeHTTP
C15_Witness ==
    /\ serving["g1"].method = "ServeSSE" /\ serving["g1"].pc = "done"
    /\ serving["g2"].method = "ServeHTTP" /\ serving["g2"].pc = "done"
    /\ serving["g1"].w = "w2" /\ serving["g1"].r = "r1"
    /\ serving["g2"].w = "w2" /\ serving["g2"].r = "r1"
    /\ Len(serving["g1"].delegated) = 1

\* C16: once returned, the Handler is never written: whatever the callers do
\* concurrently (GetServer, ServeHTTP, ServeSSE, ServeStdio), its server and
\* transport-handler fields keep the values they were built with, and every
\* GetServer call returns that same non-nil server.
C16_HandlerNeverMutated ==
    [][pc = "done" =>
          /\ pc' = "done"
          /\ handler' = handler
          /\ handler.server # NilServer /\ handler.httpHandler # NilServer
          /\ \A g \in Callers :
                serving'[g].method = "GetServer" =>
                    /\ serving'[g].got = handler.server
                    /\ serving'[g].got # NilServer
          /\ \A g, k \in Callers :
                (serving'[g].method = "GetServer" /\ serving'[k].method = "GetServer")
                    => serving'[g].got = serving'[k].got]_vars

\* GetServer has returned to one caller while the other is inside server.Run
C16_Witness ==
    /\ pc = "done"
    /\ serving["g1"].method = "ServeStdio" /\ serving["g1"].pc = "Run"
    /\ serving["g2"].method = "GetServer" /\ serving["g2"].pc = "done"
    /\ serving["g2"].got = handler.server
    /\ handler.server = "s1"

-----------------------------------------------------------------------------
(* schema.go: CreateDynamicSchema and CreateObjectSchema *)

\* a Go slice: nil, or the elements it holds
NilSlice == [isNil |-> TRUE, elems |-> <<>>]
MakeSlice(elems) == [isNil |-> FALSE, elems |-> elems]

\* append(s, x)
SliceAppend(s, x) == MakeSlice(Append(s.elems, x))

\* make(map[string]*jsonschema.Schema)
MakeMap == [k \in {} |-> NilSchema]

\* faulty variant of MapPut: an entry already present is kept
MapPutIfAbsent(m, k, v) ==
    [x \in DOMAIN m \cup {k} |-> IF x \in DOMAIN m THEN m[x] ELSE v]

\* m[k] = v
MapPut(m, k, v) ==
    [x \in DOMAIN m \cup {k} |-> IF x = k THEN v ELSE m[x]]

\* the schema of one field: type, description, and the enum values when there are any
FieldSchema(field) ==
    [Type |-> field.Type, Description |-> field.Description,
     Enum |-> IF Len(field.Enum.elems) > 0 THEN MakeSlice(field.Enum.elems) ELSE NilSlice]

\* the loop of CreateDynamicSchema over fields, from index i on
RECURSIVE DynamicSchemaLoop(_, _, _, _)
DynamicSchemaLoop(fields, i, properties, required) ==
    IF i > Len(fields) THEN [properties |-> properties, required |-> required]
    ELSE LET field == fields[i] IN
         DynamicSchemaLoop(fields, i + 1,
             MapPut(properties, field.Name, FieldSchema(field)),
             IF field.Required THEN SliceAppend(required, field.Name) ELSE required)

CreateDynamicSchema(fields) ==
    LET r == DynamicSchemaLoop(fields, 1, MakeMap, NilSlice) IN
    [Type |-> "object", Description |-> "", Properties |-> r.properties, Required |-> r.required]

CreateObjectSchema(description, properties, required) ==
    [Type |-> "object", Description |-> description,
     Properties |-> [name \in DOMAIN properties |->
                        [Type |-> "string", Description |-> properties[name], Enum |-> NilSlice]],
     Required |-> required]

\* the field descriptors a caller passes
FieldNames == {"a", "b"}
FieldDefs ==
    [Name : FieldNames, Type : {"string", "number"}, Description : {"d1", "d2"},
     Required : BOOLEAN, Enum : {NilSlice, MakeSlice(<<>>), MakeSlice(<<"x", "y">>)}]

FieldLists(n) == UNION {[1..k -> FieldDefs] : k \in 0..n}

\* the name->description maps and the required lists a caller passes
PropertyMaps == UNION {[names -> {"x", "y"}] : names \in SUBSET FieldNames}
RequiredLists(n) ==
    {NilSlice} \cup {MakeSlice(l) : l \in UNION {[1..k -> FieldNames \cup {"c"}] : k \in 0..n}}

\* a schema helper has been called
InitSchema ==
    /\ InitNew({<<>>}, {"New"}) /\ InitCalls /\ InitServing
    /\ helper \in [fn : {"CreateDynamicSchema"}, pc : {"called"}, fields : FieldLists(MaxFields)]
                  \cup [fn : {"CreateObjectSchema"}, pc : {"called"}, description : {"d"},
                        properties : PropertyMaps, required : RequiredLists(MaxFields)]

ReturnDynamicSchema ==
    /\ helper.fn = "CreateDynamicSchema"
    /\ helper.pc = "called"
    /\ helper' = [fn |-> helper.fn, pc |-> "returned", fields |-> helper.fields,
                  out |-> CreateDynamicSchema(helper.fields)]
    /\ UNCHANGED <<entry, opts, pc, idx, cfg, servers, handler, err, server, applied, calls, serving>>

ReturnObjectSchema ==
    /\ helper.fn = "CreateObjectSchema"
    /\ helper.pc = "called"
    /\ helper' = [fn |-> helper.fn, pc |-> "returned", description |-> helper.description,
                  properties |-> helper.properties, required |-> helper.required,
                  out |-> CreateObjectSchema(helper.description, helper.properties, helper.required)]
    /\ UNCHANGED <<entry, opts, pc, idx, cfg, servers, handler, err, server, applied, calls, serving>>

NextSchema ==
    \/ ReturnDynamicSchema
    \/ ReturnObjectSchema

SpecSchema == InitSchema /\ [][NextSchema]_vars

DynamicReturned == helper.fn = "CreateDynamicSchema" /\ helper.pc = "returned"
ObjectReturned == helper.fn = "CreateObjectSchema" /\ helper.pc = "returned"

\* the names of the descriptors flagged required, in the order of the list
FlaggedNames(fields) ==
    LET flagged == SelectSeq(fields, LAMBDA f : f.Required) IN
    [i \in 1..Len(flagged) |-> flagged[i].Name]

\* the properties entry prop carries descriptor f: its type, its description and its enum values if any
Carries(prop, f) ==
    /\ prop.Type = f.Type
    /\ prop.Description = f.Description
    /\ IF f.Enum.elems # <<>> THEN prop.Enum.elems = f.Enum.elems ELSE prop.Enum.isNil

\* C17: for every list of field descriptors, CreateDynamicSchema returns an
\* object schema with one properties entry per descriptor, carrying that
\* descriptor's type, description and enum values if any, and with a required
\* list of exactly the names flagged required, in the order encountered; the
\* empty list gives empty properties and no required list.
C17_OneEntryPerDescriptor ==
    DynamicReturned =>
        LET fields == helper.fields
            out == helper.out
        IN
        /\ out.Type = "object"
        /\ Cardinality(DOMAIN out.Properties) = Len(fields)
        /\ \A i \in 1..Len(fields) :
              /\ fields[i].Name \in DOMAIN out.Properties
              /\ Carries(out.Properties[fields[i].Name], fields[i])
        /\ out.Required.elems = FlaggedNames(fields)
        /\ (fields = <<>> => (DOMAIN out.Properties = {} /\ out.Required.isNil))

\* C17, amended: CreateDynamicSchema returns an object schema with one
\* properties entry per distinct descriptor name, carrying the type,
\* description and enum values if any of the last descriptor of that name (one
\* entry per descriptor when the names are distinct), and with a required list
\* of exactly the names flagged required, in the order encountered, which is
\* absent when no descriptor is flagged; the empty list gives empty properties
\* and no required list.
C17_OneEntryPerName ==
    DynamicReturned =>
        LET fields == helper.fields
            out == helper.out
            last(i) == \A j \in (i + 1)..Len(fields) : fields[j].Name # fields[i].Name
        IN
        /\ out.Type = "object"
        /\ DOMAIN out.Properties = {fields[i].Name : i \in 1..Len(fields)}
        /\ \A i \in 1..Len(fields) :
              last(i) => Carries(out.Properties[fields[i].Name], fields[i])
        /\ out.Required.elems = FlaggedNames(fields)
        /\ (out.Required.isNil <=> FlaggedNames(fields) = <<>>)
        /\ (fields = <<>> => (DOMAIN out.Properties = {} /\ out.Required.isNil))

\* a schema was built from two descriptors of the same name, both flagged required
C17_Witness ==
    /\ DynamicReturned
    /\ Len(helper.fields) = 2
    /\ helper.fields[1].Name = "a" /\ helper.fields[1].Type = "string" /\ helper.fields[1].Required
    /\ helper.fields[2].Name = "a" /\ helper.fields[2].Type = "number" /\ helper.fields[2].Required
    /\ helper.fields[2].Enum.elems = <<"x", "y">>
    /\ DOMAIN helper.out.Properties = {"a"}
    /\ helper.out.Properties["a"].Type = "number"
    /\ helper.out.Required.elems = <<"a", "a">>

\* C18: every object schema a schema helper returns (CreateDynamicSchema for
\* any field list, CreateObjectSchema for any name->description map and any
\* required list) has its properties keyed by unique name, the last write
\* winning on duplicate input names, and a required list that names only
\* properties of the schema.
C18_RequiredNamesAreProperties ==
    (DynamicReturned \/ ObjectReturned) =>
        LET out == helper.out IN
        /\ out.Type = "object"
        /\ \A i \in 1..Len(out.Required.elems) : out.Required.elems[i] \in DOMAIN out.Properties
        /\ DynamicReturned =>
              \A i \in 1..Len(helper.fields) :
                  (\A j \in (i + 1)..Len(helper.fields) : helper.fields[j].Name # helper.fields[i].Name)
                      => Carries(out.Properties[helper.fields[i].Name], helper.fields[i])
        /\ ObjectReturned => DOMAIN out.Properties = DOMAIN helper.properties

-----------------------------------------------------------------------------
(* Properties of the raw and script adapters, checked under SpecAdapter *)

\* the calls of raw and script tools whose arguments are not valid JSON, so
\* that json.Marshal fails on them
UnmarshallableCalls ==
    {c \in CallIds : /\ calls[c].pc # "idle"
                     /\ calls[c].h.adapter = "raw"
                     /\ ~calls[c].args.null
                     /\ ~JSONUnmarshal(calls[c].args.data).ok}

\* C19: when the arguments of a call cannot be serialised, the raw adapter
\* returns a result with the is-error flag set and a text that says the input
\* could not be marshalled, together with a nil error, and the user function
\* is not called.
C19_MarshalFailureIsAResult ==
    \A c \in UnmarshallableCalls :
        /\ calls[c].pc = "done"
        /\ calls[c].err = Nil
        /\ calls[c].result # Nil
        /\ calls[c].result.IsError
        /\ Len(calls[c].result.Content) = 1
        /\ calls[c].result.Content[1].Text[1] = "Failed to marshal input: "
        /\ Len(calls[c].result.Content[1].Text) > 1
        /\ calls[c].fnCalls = 0
        /\ calls[c].fnBytes = <<>> /\ calls[c].fnErr = Nil

\* a raw tool and a script tool have each been called with arguments that
\* cannot be marshalled
C19_Witness ==
    /\ UnmarshallableCalls = CallIds
    /\ calls["c1"].tool = <<"u">> /\ calls["c1"].args.data = <<"[">>
    /\ calls["c2"].tool = <<"v">> /\ calls["c2"].args.data = <<"[">>
    /\ calls["c1"].result.IsError /\ calls["c2"].result.IsError

\* the option loop is about to apply a WithScriptTool step with valid arguments
AtValidScriptStep ==
    /\ pc = "apply"
    /\ idx <= Len(opts)
    /\ opts[idx].opt = "WithScriptTool"
    /\ opts[idx].name # <<>>
    /\ opts[idx].evaluator # NilEvaluator

\* an object schema that constrains no property
IsGenericObjectSchema(schema) ==
    /\ schema.Type = "object"
    /\ "Properties" \notin DOMAIN schema
    /\ "Required" \notin DOMAIN schema

\* the calls of script tools that have returned
ScriptReturned == {c \in RawReturned : IsScriptFunc(calls[c].h.fn)}

\* what the raw adapter over a function returns, when that function is called
\* with the marshalled arguments and returns (bytes, fnErr)
RawAdapterOutcome(args, bytes, fnErr) ==
    LET m == MarshalArguments(args) IN
    IF ~m.ok THEN RawMarshalFailure(m.err) ELSE RawHandlerReturn(bytes, fnErr)

\* C20: a WithScriptTool(name, description, evaluator) step with valid
\* arguments does what WithRawTool(name, description, S, evaluator.Execute)
\* does, S being an object schema that constrains no property: it appends
\* exactly one registration, that one; and every call of the registered handler
\* returns what the raw adapter returns for what Execute returned (same
\* classification of the error, same shape of the result).
C20_ScriptToolIsARawTool ==
    [][/\ AtValidScriptStep =>
             LET o == opts[idx]
                 S == cfg'.tools[Len(cfg'.tools)].InputSchema
                 raw == ApplyWithRawTool(
                            WithRawTool(o.name, o.description, S, [f |-> "rawFunc", Execute |-> o.evaluator]),
                            cfg)
             IN
             /\ err' = Nil
             /\ Len(cfg'.tools) = Len(cfg.tools) + 1
             /\ SubSeq(cfg'.tools, 1, Len(cfg.tools)) = cfg.tools
             /\ IsGenericObjectSchema(S)
             /\ raw.err = Nil
             /\ cfg' = raw.cfg
       /\ \A c \in ScriptReturned' :
             LET r == RawAdapterOutcome(calls'[c].args, calls'[c].fnBytes, calls'[c].fnErr) IN
             /\ calls'[c].result = r.result
             /\ calls'[c].err = r.err]_vars

\* the script step has appended its registration after the two others, and a
\* call of the script tool has returned a Tool Error of Execute as a result
C20_Witness ==
    /\ pc = "done"
    /\ Len(cfg.tools) = 3
    /\ cfg.tools[3].Name = <<"v">> /\ cfg.tools[3].adapter = "raw"
    /\ IsScriptFunc(cfg.tools[3].fn)
    /\ "c1" \in ScriptReturned
    /\ calls["c1"].fnErr = ToolError(<<"m">>, <<"V">>)
    /\ calls["c1"].result # Nil /\ calls["c1"].result.IsError
    /\ calls["c1"].err = Nil

\* the calls of script tools in which evaluator.Execute has been called
ExecuteCalled ==
    {c \in CallIds : /\ calls[c].pc \in {"running", "done"}
                     /\ calls[c].h.adapter = "raw"
                     /\ IsScriptFunc(calls[c].h.fn)
                     /\ calls[c].fnCalls > 0}

\* Execute is called with the context of the request as the runtime gave it,
\* and the call of the tool ends only with the return of Execute
ExecuteNotTimedByAdapter(c) ==
    /\ calls[c].ctx = RequestContext(c)
    /\ calls[c].fnCtx = calls[c].ctx
    /\ calls[c].fnCtx.deadline = "none"
    /\ (calls[c].pc = "done" <=> calls[c].fnReturned)

-----------------------------------------------------------------------------
(* Further properties of construction, checked under Spec *)

\* the add-tool steps of opts whose non-empty name an earlier add-tool step has used
DuplicateSteps ==
    {i \in 1..Len(opts) :
        /\ IsToolStep(opts[i])
        /\ opts[i].name # <<>>
        /\ \E j \in 1..(i - 1) : IsToolStep(opts[j]) /\ opts[j].name = opts[i].name}

\* the names of the add-tool steps of opts, in the order of the steps
ToolStepNames ==
    LET steps == SelectSeq(opts, IsToolStep) IN [i \in 1..Len(steps) |-> steps[i].name]

\* C22: duplicate tool names are not rejected: a step that uses a name an
\* earlier add-tool step has used fails only if it fails by its own arguments,
\* both registrations are kept in the record and replayed against the server,
\* and ErrDuplicateTool is never returned.
C22_DuplicateNamesNotRejected ==
    /\ ~ErrorsIs(err, ErrDuplicateTool)
    /\ (pc = "failed" /\ idx \in DuplicateSteps) =>
          \/ opts[idx].opt = "WithRawTool" /\ opts[idx].inputSchema = NilSchema
          \/ opts[idx].opt = "WithScriptTool" /\ opts[idx].evaluator = NilEvaluator
    /\ pc \in {"register", "done"} =>
          [i \in 1..Len(cfg.tools) |-> cfg.tools[i].Name] = ToolStepNames
    /\ pc = "done" =>
          [i \in 1..Len(servers[server].tools) |-> servers[server].tools[i].tool.Name] = ToolStepNames

\* two raw tools of the same name, with a typed tool between them, are all
\* registered on the returned handler's server
C22_Witness ==
    /\ pc = "done"
    /\ err = Nil
    /\ DuplicateSteps = {3}
    /\ opts[1] = opts[3]
    /\ opts[1].opt = "WithRawTool"
    /\ Len(cfg.tools) = 3
    /\ Len(servers[GetServer(handler)].tools) = 3
    /\ servers[GetServer(handler)].tools[1].tool.Name = servers[GetServer(handler)].tools[3].tool.Name

-----------------------------------------------------------------------------
(* Further properties of the adapters, checked under SpecAdapter *)

\* the calls that have entered a handler
Entered == {c \in CallIds : calls[c].pc \in {"running", "done"}}

\* C23: no adapter retries or changes its input: in every call the user
\* function is called at most once, whatever it returns; exactly once, with
\* the input the handler was given, by the typed adapter; exactly once, with
\* the marshalled arguments, by the raw and script adapters when marshalling
\* succeeds, and not at all when it fails.
C23_CalledOnceWithTheInput ==
    /\ \A c \in CallIds : calls[c].fnCalls <= 1
    /\ \A c \in Entered :
          /\ calls[c].h.adapter = "typed" =>
                /\ calls[c].fnCalls = 1
                /\ calls[c].fnIn = calls[c].input
                /\ calls[c].input \in TypedInputs
          /\ calls[c].h.adapter = "raw" =>
                LET m == MarshalArguments(calls[c].args) IN
                IF m.ok
                THEN /\ calls[c].fnCalls = 1
                     /\ calls[c].inputJSON = m.bytes
                     /\ calls[c].args \in ArgumentSet
                ELSE calls[c].fnCalls = 0 /\ calls[c].inputJSON = <<>>
          /\ calls[c].fnReturned => calls[c].fnCalls = 1

\* a typed and a raw call have both ended on an error of the user function,
\* after one call of it each
C23_Witness ==
    /\ calls["c1"].pc = "done" /\ calls["c1"].h.adapter = "typed"
    /\ calls["c1"].fnErr = PlainError(<<"p">>) /\ calls["c1"].fnCalls = 1
    /\ calls["c1"].fnIn = "in2"
    /\ calls["c2"].pc = "done" /\ calls["c2"].tool = <<"u">>
    /\ calls["c2"].fnErr = PlainError(<<"p">>) /\ calls["c2"].fnCalls = 1
    /\ calls["c2"].inputJSON = <<"1">>

\* whether e is a Tool Error or has one in its chain
RECURSIVE HasToolError(_)
HasToolError(e) ==
    IF e = Nil THEN FALSE
    ELSE IF e.kind = "ToolError" THEN TRUE
    ELSE IF e.kind = "wrap" THEN HasToolError(e.inner)
    ELSE IF e.kind = "join" THEN \E i \in 1..Len(e.errs) : HasToolError(e.errs[i])
    ELSE FALSE

WrappedToolErrorCalls ==
    {c \in RawReturned : /\ calls[c].fnReturned
                         /\ calls[c].fnErr # Nil
                         /\ calls[c].fnErr.kind # "ToolError"
                         /\ HasToolError(calls[c].fnErr)}

\* the message of the Tool Error an error wraps (the first one, depth first)
RECURSIVE WrappedMessage(_)
WrappedMessage(e) ==
    IF e.kind = "ToolError" THEN e.Message
    ELSE IF e.kind = "wrap" THEN WrappedMessage(e.inner)
    ELSE LET i == CHOOSE k \in 1..Len(e.errs) :
                    HasToolError(e.errs[k]) /\ \A j \in 1..(k - 1) : ~HasToolError(e.errs[j])
         IN WrappedMessage(e.errs[i])

\* C25: the raw adapter looks for a Tool Error in the whole chain of the
\* error: an error that is not a Tool Error itself but wraps one gives a
\* result with the is-error flag whose one text is the Message of the wrapped
\* Tool Error, without the wrapper's text, and a nil error.
C25_WrappedToolErrorIsAResult ==
    \A c \in WrappedToolErrorCalls :
        /\ calls[c].err = Nil
        /\ calls[c].result # Nil
        /\ calls[c].result.IsError
        /\ Len(calls[c].result.Content) = 1
        /\ calls[c].result.Content[1].Text = WrappedMessage(calls[c].fnErr)

\* one raw call got a Tool Error wrapped by fmt.Errorf, the other one joined
\* with a plain error
C25_Witness ==
    /\ WrappedToolErrorCalls = CallIds
    /\ calls["c1"].fnErr = Wrapf("ctx: ", ToolError(<<"m">>, <<"V">>))
    /\ calls["c1"].result.Content[1].Text = <<"m">>
    /\ calls["c2"].fnErr = ErrorsJoin(PlainError(<<"p">>), ToolError(<<"m">>, <<>>))
    /\ calls["c2"].result.Content[1].Text = <<"m">>

-----------------------------------------------------------------------------
(* Properties of the deferred registration, checked under Spec *)

\* C26: registrations are deferred until every option has been applied, and
\* then go to the final server wherever WithServer stands in the sequence:
\* while options are applied no server receives a tool; with WithServer steps
\* in the sequence, the server of the last one receives every registration,
\* those of tools added before it included, no other server receives any, and
\* GetServer returns that server.
C26_RegistrationsGoToLastServer ==
    /\ pc \in {"apply", "failed"} => \A s \in ServerIds : servers[s].tools = <<>>
    /\ (pc \in {"register", "panicked", "done"} /\ Injected # {}) =>
          LET last == LastSet("WithServer", "server", NilServer) IN
          /\ server = last
          /\ \A s \in ServerIds \ {last} : servers[s].tools = <<>>
          /\ [i \in 1..Len(servers[last].tools) |-> servers[last].tools[i].tool.Name]
                = SubSeq(ToolStepNames, 1, Len(servers[last].tools))
          /\ pc = "done" =>
                /\ GetServer(handler) = last
                /\ Len(servers[last].tools) = Len(ToolStepNames)

\* a tool was added, then one server injected, then another: the tool is on
\* the second server, which GetServer returns
C26_Witness ==
    /\ pc = "done"
    /\ Len(opts) = 3
    /\ opts[1].opt = "WithRawTool"
    /\ opts[2] = WithServer("s1")
    /\ opts[3] = WithServer("s2")
    /\ GetServer(handler) = "s2"
    /\ Len(servers["s2"].tools) = 1
    /\ servers["s1"].tools = <<>>

\* C27: a construction that fails leaves an injected server as it was: when
\* some option of the sequence fails, wherever it stands among successful
\* WithServer and add-tool steps, the entry point never gets to choose a
\* server or to replay, no tool is registered on any server, every injected
\* server is in the state it had before the call, and no handler is returned.
C27_FailureLeavesServerUntouched ==
    (\E i \in 1..Len(opts) : OptionFails(i)) =>
        /\ pc \in {"apply", "failed"}
        /\ server = NilServer
        /\ \A s \in InjectedServers : servers[s] = NewServer(<<"test-server">>, <<"1.0.0">>)
        /\ servers["new"] = NotBuilt
        /\ handler = NoHandler
        /\ pc = "failed" => err # Nil

\* a server was injected and a tool added before the step that failed
C27_Witness ==
    /\ pc = "failed"
    /\ Len(opts) = 3
    /\ opts[1] = WithServer("s1")
    /\ opts[2].opt = "WithTool" /\ opts[2].name = <<"t">>
    /\ opts[3] = WithVersion(<<>>)
    /\ Len(cfg.tools) = 1
    /\ cfg.server = "s1"
    /\ servers["s1"].tools = <<>>

-----------------------------------------------------------------------------
(* options.go: the add-tool steps with every combination of valid and        *)
(* invalid arguments                                                         *)

ValidationOptionSet ==
    {WithTool(n, Desc, "struct", f) : n \in {<<>>, <<"t">>}, f \in {echoFunc, NilFunc}}
    \cup {WithRawTool(n, Desc, sch, f) :
              n \in {<<>>, <<"u">>}, sch \in {NilSchema, RawSchema}, f \in {rawFunc, NilFunc}}
    \cup {WithScriptTool(n, Desc, ev) : n \in {<<>>, <<"v">>}, ev \in {NilEvaluator, "ev"}}

ValidationOptSeqs(n) == UNION {[1..k -> ValidationOptionSet] : k \in 0..n}

InitValidation ==
    InitNew(ValidationOptSeqs(MaxOpts), Entries) /\ InitCalls /\ InitServing /\ InitHelper

SpecValidation == InitValidation /\ [][Next]_vars

\* the number of add-tool steps before index i
ToolStepsBefore(i) == Cardinality({j \in 1..(i - 1) : IsToolStep(opts[j])})

\* C28: the checks of a step run in a fixed order: WithRawTool and
\* WithScriptTool check the name first, so an empty name gives
\* ErrEmptyToolName also when the schema (the evaluator) is nil, and
\* ErrNilSchema (ErrNilEvaluator) is returned only for a non-empty name; the
\* step that fails appends no registration.
C28_NameIsCheckedFirst ==
    pc = "failed" =>
        LET o == opts[idx] IN
        /\ o.opt = "WithRawTool" =>
              IF o.name = <<>>
              THEN ErrorsIs(err, ErrEmptyToolName) /\ ~ErrorsIs(err, ErrNilSchema)
              ELSE /\ o.inputSchema = NilSchema
                   /\ ErrorsIs(err, ErrNilSchema) /\ ~ErrorsIs(err, ErrEmptyToolName)
        /\ o.opt = "WithScriptTool" =>
              IF o.name = <<>>
              THEN ErrorsIs(err, ErrEmptyToolName) /\ ~ErrorsIs(err, ErrNilEvaluator)
              ELSE /\ o.evaluator = NilEvaluator
                   /\ ErrorsIs(err, ErrNilEvaluator) /\ ~ErrorsIs(err, ErrEmptyToolName)
        /\ Len(cfg.tools) = ToolStepsBefore(idx)

\* after a tool was added, a WithRawTool step with an empty name and a nil
\* schema has failed
C28_Witness ==
    /\ pc = "failed"
    /\ idx = 2
    /\ opts[1].opt = "WithScriptTool"
    /\ opts[2].opt = "WithRawTool"
    /\ opts[2].name = <<>>
    /\ opts[2].inputSchema = NilSchema
    /\ ErrorsIs(err, ErrEmptyToolName)
    /\ Len(cfg.tools) = 1

\* a WithTool or WithRawTool step with a nil function and otherwise valid arguments
NilFunctionStep(o) ==
    /\ o.opt \in {"WithTool", "WithRawTool"}
    /\ o.fn = NilFunc
    /\ o.name # <<>>
    /\ o.opt = "WithRawTool" => o.inputSchema # NilSchema

\* C29: no step checks the tool function: a WithTool or WithRawTool step with
\* a nil function and otherwise valid arguments does not fail and appends its
\* registration, construction goes through with it, and ErrNilFunction is
\* never returned.
C29_NilFunctionNotValidated ==
    /\ ~ErrorsIs(err, ErrNilFunction)
    /\ pc # "panicked"
    /\ pc = "failed" => ~NilFunctionStep(opts[idx])
    /\ pc \in {"register", "done"} =>
          LET steps == SelectSeq(opts, IsToolStep) IN
          /\ Len(cfg.tools) = Len(steps)
          /\ \A k \in 1..Len(steps) :
                NilFunctionStep(steps[k]) => cfg.tools[k].fn = NilFunc
    /\ pc = "done" =>
          /\ err = Nil /\ handler # NoHandler
          /\ Len(servers[server].tools) = Len(cfg.tools)
          /\ \A k \in 1..Len(cfg.tools) : servers[server].tools[k].handler.fn = cfg.tools[k].fn

\* a handler was returned for a typed and a raw tool with nil functions
C29_Witness ==
    /\ pc = "done"
    /\ Len(opts) = 2
    /\ opts[1].opt = "WithTool" /\ NilFunctionStep(opts[1])
    /\ opts[2].opt = "WithRawTool" /\ NilFunctionStep(opts[2])
    /\ Len(servers[server].tools) = 2
    /\ servers[server].tools[1].handler.fn = NilFunc
    /\ servers[server].tools[2].handler.fn = NilFunc

-----------------------------------------------------------------------------
(* Independence of the invocations, checked under SpecAdapter *)

\* what the handler has returned for call c
Outcome(c) == [result |-> calls[c].result, output |-> calls[c].output, err |-> calls[c].err]

\* what the handler of call c returns for the arguments of c and for what the
\* user function returned to c
OwnOutcome(c) ==
    IF calls[c].h.adapter = "typed"
    THEN TypedHandlerReturn(calls[c].fnOut, calls[c].fnErr)
    ELSE LET f == IF IsScriptFunc(calls[c].h.fn)
                  THEN ScriptRawFuncReturn(calls[c].fnBytes, calls[c].fnErr)
                  ELSE [bytes |-> calls[c].fnBytes, err |-> calls[c].fnErr]
             r == RawAdapterOutcome(calls[c].args, f.bytes, f.err)
         IN [result |-> r.result, output |-> "none", err |-> r.err]

\* the arguments of call c and what the user function returned to it
OwnHistory(c) ==
    [h |-> calls[c].h, input |-> calls[c].input, args |-> calls[c].args,
     fnCalls |-> calls[c].fnCalls, fnOut |-> calls[c].fnOut,
     fnBytes |-> calls[c].fnBytes, fnErr |-> calls[c].fnErr]

\* C30: the adapters hold no state between invocations. Under every
\* interleaving of the invocations of a handler, what an invocation returns is
\* a function of its own arguments and of what the user function returned to
\* it: two invocations that agree on these return the same; a step of one
\* invocation leaves the record of every other invocation as it is, and what
\* an invocation has returned is never altered afterwards.
C30_InvocationsAreIndependent ==
    /\ [](\A c \in CallIds : calls[c].pc = "done" => Outcome(c) = OwnOutcome(c))
    /\ [](\A c, d \in CallIds :
            calls[c].pc = "done" /\ calls[d].pc = "done" /\ OwnHistory(c) = OwnHistory(d)
                => Outcome(c) = Outcome(d))
    /\ [][\A c \in CallIds :
            calls'[c] # calls[c] =>
                /\ calls[c].pc # "done"
                /\ \A d \in CallIds \ {c} : calls'[d] = calls[d]]_vars

\* two invocations of the typed handler of one tool with the same input have
\* returned, the first with the error of its function, the second with the
\* output of its function
C30_Witness ==
    /\ calls["c1"].pc = "done" /\ calls["c2"].pc = "done"
    /\ calls["c1"].h = calls["c2"].h
    /\ calls["c1"].h.adapter = "typed"
    /\ calls["c1"].input = calls["c2"].input
    /\ calls["c1"].fnErr # Nil /\ calls["c1"].err = calls["c1"].fnErr
    /\ calls["c2"].fnErr = Nil /\ calls["c2"].fnOut = "out1"
    /\ calls["c2"].output = "out1" /\ calls["c2"].err = Nil

=============================================================================
